---- MODULE Spec2Model ----
(***************************************************************************)
(* A model of pymarc.field.Field: one MARC field, its flat alternating     *)
(* subfield list, the iteration cursor kept on the instance, the query     *)
(* and mutation methods, as_marc, and the map_marc8_field hook.            *)
(*                                                                         *)
(* Text is a sequence of code points (Python str); bytes are a sequence of *)
(* byte values.  Python indices are 0-based, TLA+ sequences are 1-based:   *)
(* element i of a Python list is sf[i + 1] here.                           *)
(***************************************************************************)
EXTENDS Integers, Sequences, FiniteSets, TLC

\* Largest number of (code, value) pairs a field is grown to.
MaxPairs == 3
\* Longest raw subfield sequence handed to the constructor in SpecCtor.
MaxCtorLen == 3

VARIABLES
    tag,            \* self.tag
    indicators,     \* self.indicators (absent on a control field: <<>>)
    data,           \* self.data (absent on a data field: <<>>)
    subfields,      \* self.subfields; for a map object, the items it has yet to produce
    subfieldsType,  \* "list", or "map" once map_marc8_field rebinds it to a map object
    pos,            \* self.__pos; -1 while the attribute is not set
    op,             \* history: the last call, [name, args]
    ret,            \* history: what the last call returned or raised
    old,            \* history: subfields before the last call
    midway,         \* history: an iteration was under way (cursor set, before the
                    \*          end of the list) when the last call began
    yielded         \* history: per consumer, the positions yielded since the last call
                    \*          other than __next__

vars == <<tag, indicators, data, subfields, subfieldsType, pos, op, ret, old, midway, yielded>>

----------------------------------------------------------------------------
\* Python values

\* The two iteration consumers sharing one Field instance.
Consumers == {"outer", "inner"}

\* Subfield codes 'a' and 'b'.
Codes == {<<97>>, <<98>>}

\* Subfield values: '' and 'a' (equal to a code).
Values == {<<>>, <<97>>}

\* Subfield values of a field read from MARC-8 data: 'a' and '\xe2e' (the MARC-8
\* combining acute followed by 'e').
Marc8Values == {<<97>>, <<226, 101>>}

\* Constructor arguments: tag (integer-like), indicators, data.
TagArgs == {1, 245}

IndicatorArgs == {<<>>, << <<48>>, <<32>> >>}

DataArgs == {<<>>, <<97, 32, 98>>, <<226, 101>>}

Encodings == {"utf-8"}

\* key arguments of sort: the default (lambda code: code) and operator.itemgetter(0).
Keys == {"identity", "itemgetter0"}

\* Optional arguments: None is <<>>, a given value v is <<v>>.
None == <<>>

Some(v) == <<v>>

\* What a call did: returned v, returned None, or raised exc.
Return(v) == [exc |-> "", val |-> <<v>>]

ReturnNone == [exc |-> "", val |-> <<>>]

Raise(e) == [exc |-> e, val |-> <<>>]

\* pymarc.constants: the subfield delimiter 0x1F and the field terminator 0x1E.
SUBFIELD_INDICATOR == <<31>>

END_OF_FIELD == <<30>>

\* str < str: lexicographic on code points.
RECURSIVE StrLess(_, _)
StrLess(s, t) ==
    IF t = <<>> THEN FALSE
    ELSE IF s = <<>> THEN TRUE
    ELSE IF s[1] # t[1] THEN s[1] < t[1]
    ELSE StrLess(Tail(s), Tail(t))

\* tuple < tuple for (code, value) tuples.
TupleLess(a, b) ==
    IF a[1] # b[1] THEN StrLess(a[1], b[1]) ELSE StrLess(a[2], b[2])

\* list.pop(i) for 0 <= i < len: the list without element i.
pop(sf, i) == SubSeq(sf, 1, i) \o SubSeq(sf, i + 2, Len(sf))

\* '%03i' % n for 0 <= n.
RECURSIVE Digits(_)
Digits(n) == IF n < 10 THEN <<48 + n>> ELSE Append(Digits(n \div 10), 48 + (n % 10))

Format03i(n) ==
    LET d == Digits(n) IN
    IF Len(d) >= 3 THEN d ELSE [i \in 1..(3 - Len(d)) |-> 48] \o d

isdigit(s) == s # <<>> /\ \A i \in 1..Len(s) : s[i] >= 48 /\ s[i] <= 57

\* Field.is_control_field
is_control_field(t) == StrLess(t, <<48, 49, 48>>) /\ isdigit(t)

\* Field.is_subject_field
is_subject_field(t) == t # <<>> /\ t[1] = 54

----------------------------------------------------------------------------
\* Construction

RECURSIVE Flatten(_)
Flatten(pairs) ==
    IF pairs = <<>> THEN <<>>
    ELSE <<pairs[1][1], pairs[1][2]>> \o Flatten(Tail(pairs))

\* Subfield arguments in the documented shape [code, value, code, value, ...].
SubfieldArgs ==
    {Flatten(ps) : ps \in UNION {[1..k -> Codes \X Values] : k \in 0..MaxPairs}}

Marc8SubfieldArgs ==
    {Flatten(ps) : ps \in UNION {[1..k -> Codes \X Marc8Values] : k \in 0..MaxPairs}}

\* Any sequence of strings: the constructor copies whatever it is given.
AnySubfieldArgs == UNION {[1..k -> Codes \cup Values] : k \in 0..MaxCtorLen}

\* Field.__init__: the attributes it sets, or no state when it raises.
__init__(tagArg, indicatorsArg, subfieldsArg, dataArg) ==
    LET t == Format03i(tagArg) IN
    /\ tag = t
    /\ IF is_control_field(t)
       THEN /\ data = dataArg
            /\ indicators = <<>>
            /\ subfields = <<>>
       ELSE /\ Len(indicatorsArg) = 2      \* else the unpacking raises ValueError
            /\ indicators = indicatorsArg
            /\ subfields = subfieldsArg
            /\ data = <<>>
    /\ subfieldsType = "list"
    /\ pos = -1
    /\ op = [name |-> "__init__", args |-> <<>>]
    /\ ret = ReturnNone
    /\ old = <<>>
    /\ midway = FALSE
    /\ yielded = [c \in Consumers |-> {}]

Init ==
    \E t \in TagArgs, i \in IndicatorArgs, s \in SubfieldArgs, d \in DataArgs :
        __init__(t, i, s, d)

InitCtor ==
    \E t \in TagArgs, i \in IndicatorArgs, s \in AnySubfieldArgs, d \in DataArgs :
        __init__(t, i, s, d)

InitMarc8 ==
    \E t \in TagArgs, i \in IndicatorArgs, s \in Marc8SubfieldArgs, d \in DataArgs :
        __init__(t, i, s, d)

----------------------------------------------------------------------------
\* Iteration

\* Field.__next__ at cursor p over list sf: the pair yielded and the new cursor,
\* or the exception raised.
__next__(sf, p) ==
    IF is_control_field(tag) THEN [exc |-> "StopIteration", val |-> <<>>, pos |-> p]
    ELSE IF p = -1 THEN [exc |-> "AttributeError", val |-> <<>>, pos |-> p]
    ELSE IF subfieldsType = "map" THEN [exc |-> "TypeError", val |-> <<>>, pos |-> p]
    ELSE IF p < Len(sf)
         THEN IF p + 1 < Len(sf)
              THEN [exc |-> "", val |-> <<sf[p + 1], sf[p + 2]>>, pos |-> p + 2]
              ELSE [exc |-> "IndexError", val |-> <<>>, pos |-> p]
         ELSE [exc |-> "StopIteration", val |-> <<>>, pos |-> p]

\* "for subfield in self" run to its end from cursor p: the pairs produced, the
\* cursor left behind, and the exception that escaped the loop ("" for none).
RECURSIVE ForEach(_, _, _)
ForEach(sf, p, acc) ==
    LET r == __next__(sf, p) IN
    IF r.exc = "" THEN ForEach(sf, r.pos, Append(acc, r.val))
    ELSE [exc |-> IF r.exc = "StopIteration" THEN "" ELSE r.exc,
          items |-> acc, pos |-> r.pos]

\* Mutant of __iter__: the cursor is not put back on the first pair.
__iter__no_reset(p) == p

\* Field.__iter__: the cursor it leaves, whatever the cursor p was.
__iter__(p) == 0

\* Field.__iter__ followed by the loop.
IterAll(sf) == ForEach(sf, __iter__(pos), <<>>)

----------------------------------------------------------------------------
\* Query methods.  Each gives [sf, pos, ret]: the subfield list and cursor it
\* leaves behind and what it returned or raised.

\* The values (or pairs) of the pairs whose code is in codes; all when codes = {}.
Matching(items, codes, with_codes) ==
    LET keep == SelectSeq(items, LAMBDA x : x[1] \in codes \/ codes = {}) IN
    IF with_codes THEN keep ELSE [i \in 1..Len(keep) |-> keep[i][2]]

\* Field.get_subfields(*codes, with_codes)
get_subfields(sf, codes, with_codes) ==
    LET it == IterAll(sf) IN
    [sf |-> sf, pos |-> it.pos,
     ret |-> IF it.exc # "" THEN Raise(it.exc)
             ELSE Return(Matching(it.items, codes, with_codes))]

\* Field.count(code)
count(sf, code) ==
    LET it == IterAll(sf) IN
    [sf |-> sf, pos |-> it.pos,
     ret |-> IF it.exc # "" THEN Raise(it.exc)
             ELSE Return(Len(SelectSeq(it.items, LAMBDA x : x[1] = code)))]

\* Field.__getitem__(code)
__getitem__(sf, code) ==
    LET g == get_subfields(sf, {code}, FALSE) IN
    [sf |-> sf, pos |-> g.pos,
     ret |-> IF g.ret.exc # "" THEN g.ret
             ELSE IF Len(g.ret.val[1]) > 0 THEN Return(g.ret.val[1][1])
             ELSE ReturnNone]

\* Field.__contains__(code)
__contains__(sf, code) ==
    LET g == get_subfields(sf, {code}, FALSE) IN
    [sf |-> sf, pos |-> g.pos,
     ret |-> IF g.ret.exc # "" THEN g.ret ELSE Return(Len(g.ret.val[1]) > 0)]

\* Field.subfields_as_dict()
subfields_as_dict(sf) ==
    LET it == IterAll(sf)
        keys == {it.items[i][1] : i \in 1..Len(it.items)} IN
    [sf |-> sf, pos |-> it.pos,
     ret |-> IF it.exc # "" THEN Raise(it.exc)
             ELSE Return([c \in keys |-> Matching(it.items, {c}, FALSE)])]

\* Field.__eq__(other), other being a Field
__eq__(sf, p, other) ==
    [sf |-> sf, pos |-> p,
     ret |-> IF other.tag # tag THEN Return(FALSE)
             ELSE IF is_control_field(tag) THEN Return(other.data = data)
             ELSE Return(/\ other.indicators = indicators
                         /\ subfieldsType = "list"      \* a list never equals a map object
                         /\ other.subfields = sf)]

\* str.strip(): leading and trailing whitespace removed.
IsSpace(ch) == ch = 32 \/ (ch >= 9 /\ ch <= 13)

RECURSIVE LStrip(_)
LStrip(s) == IF s # <<>> /\ IsSpace(s[1]) THEN LStrip(Tail(s)) ELSE s

RECURSIVE RStrip(_)
RStrip(s) ==
    IF s # <<>> /\ IsSpace(s[Len(s)]) THEN RStrip(SubSeq(s, 1, Len(s) - 1)) ELSE s

strip(s) == RStrip(LStrip(s))

\* sep.join(list)
RECURSIVE join(_, _)
join(sep, l) ==
    IF l = <<>> THEN <<>>
    ELSE IF Len(l) = 1 THEN l[1]
    ELSE l[1] \o sep \o join(sep, Tail(l))

\* Field.value()
value(sf, p) ==
    IF is_control_field(tag) THEN [sf |-> sf, pos |-> p, ret |-> Return(data)]
    ELSE LET it == IterAll(sf) IN
         [sf |-> sf, pos |-> it.pos,
          ret |-> IF it.exc # "" THEN Raise(it.exc)
                  ELSE Return(join(<<32>>,
                           [i \in 1..Len(it.items) |-> strip(it.items[i][2])]))]

\* The text format_field accumulates over the pairs.
RECURSIVE fielddata(_)
fielddata(items) ==
    IF items = <<>> THEN <<>>
    ELSE LET c == items[1][1]
             v == items[1][2] IN
         (IF c = <<54>> THEN <<>>
          ELSE IF ~is_subject_field(tag) THEN <<32>> \o v
          ELSE IF c \notin {<<118>>, <<120>>, <<121>>, <<122>>} THEN <<32>> \o v
          ELSE <<32, 45, 45, 32>> \o v) \o fielddata(Tail(items))

\* Field.format_field()
format_field(sf, p) ==
    IF is_control_field(tag) THEN [sf |-> sf, pos |-> p, ret |-> Return(data)]
    ELSE LET it == IterAll(sf) IN
         [sf |-> sf, pos |-> it.pos,
          ret |-> IF it.exc # "" THEN Raise(it.exc)
                  ELSE Return(strip(fielddata(it.items)))]

\* The '$%s%s' text __str__ and the delimiter + code + value text as_marc append
\* for each pair.
RECURSIVE Concat(_, _)
Concat(lead, items) ==
    IF items = <<>> THEN <<>>
    ELSE lead \o items[1][1] \o items[1][2] \o Concat(lead, Tail(items))

\* Field.__str__()
__str__(sf, p) ==
    LET head == <<61>> \o tag \o <<32, 32>> IN
    IF is_control_field(tag)
    THEN [sf |-> sf, pos |-> p,
          ret |-> Return(head \o [i \in 1..Len(data) |->
                                      IF data[i] = 32 THEN 92 ELSE data[i]])]
    ELSE LET inds == [i \in 1..Len(indicators) |->
                         IF indicators[i] \in {<<32>>, <<92>>} THEN <<92>>
                         ELSE indicators[i]]
             it == IterAll(sf) IN
         [sf |-> sf, pos |-> it.pos,
          ret |-> IF it.exc # "" THEN Raise(it.exc)
                  ELSE Return(head \o join(<<>>, inds) \o Concat(<<36>>, it.items))]

\* str.encode(encoding): UTF-8 of code points below 0x800.
RECURSIVE encode(_, _)
encode(s, encoding) ==
    IF s = <<>> THEN <<>>
    ELSE (IF s[1] < 128 THEN <<s[1]>>
          ELSE <<192 + (s[1] \div 64), 128 + (s[1] % 64)>>) \o encode(Tail(s), encoding)

\* Mutant of as_marc: the loop goes on from the cursor instead of starting over.
as_marc_from_cursor(sf, p, encoding) ==
    IF is_control_field(tag)
    THEN [sf |-> sf, pos |-> p, ret |-> Return(encode(data \o END_OF_FIELD, encoding))]
    ELSE LET marc == indicators[1] \o indicators[2]
             it == ForEach(sf, p, <<>>) IN
         [sf |-> sf, pos |-> it.pos,
          ret |-> IF it.exc # "" THEN Raise(it.exc)
                  ELSE Return(encode(marc \o Concat(SUBFIELD_INDICATOR, it.items)
                                          \o END_OF_FIELD, encoding))]

\* Field.as_marc(encoding)
as_marc(sf, p, encoding) ==
    IF is_control_field(tag)
    THEN [sf |-> sf, pos |-> p, ret |-> Return(encode(data \o END_OF_FIELD, encoding))]
    ELSE LET marc == indicators[1] \o indicators[2]
             it == IterAll(sf) IN
         [sf |-> sf, pos |-> it.pos,
          ret |-> IF it.exc # "" THEN Raise(it.exc)
                  ELSE Return(encode(marc \o Concat(SUBFIELD_INDICATOR, it.items)
                                          \o END_OF_FIELD, encoding))]

----------------------------------------------------------------------------
\* Mutation methods, each giving [sf, pos, ret] as above.

NoSubfields == [exc |-> "AttributeError", val |-> <<>>]

\* Field.add_subfield(code, value)
add_subfield(sf, p, code, v) ==
    IF is_control_field(tag) \/ subfieldsType = "map"
    THEN [sf |-> sf, pos |-> p, ret |-> NoSubfields]
    ELSE [sf |-> Append(Append(sf, code), v), pos |-> p, ret |-> ReturnNone]

\* Mutant of pop2: the code is popped and the value left behind.
pop2_code_only(sf, i) == [sf |-> pop(sf, i), ret |-> Return(sf[i + 1])]

\* The two pops of delete_subfield at index i: the second raises when the list
\* ended with the code.
pop2(sf, i) ==
    LET s1 == pop(sf, i) IN
    IF i >= Len(s1) THEN [sf |-> s1, ret |-> Raise("IndexError")]
    ELSE [sf |-> pop(s1, i), ret |-> Return(s1[i + 1])]

\* Mutant of delete_scan: the test that i is a code position is missing.
RECURSIVE delete_scan_any_index(_, _, _, _)
delete_scan_any_index(sf, i, code, match_value) ==
    IF i >= Len(sf) THEN [sf |-> sf, ret |-> ReturnNone]
    ELSE IF code = sf[i + 1]
         THEN IF match_value = None THEN pop2(sf, i)
              ELSE IF i + 1 >= Len(sf) THEN [sf |-> sf, ret |-> Raise("IndexError")]
              ELSE IF sf[i + 2] = match_value[1] THEN pop2(sf, i)
              ELSE delete_scan_any_index(sf, i + 1, code, match_value)
         ELSE delete_scan_any_index(sf, i + 1, code, match_value)

\* The enumerate loop of delete_subfield over a list, from index i.
RECURSIVE delete_scan(_, _, _, _)
delete_scan(sf, i, code, match_value) ==
    IF i >= Len(sf) THEN [sf |-> sf, ret |-> ReturnNone]
    ELSE IF i % 2 = 0 /\ code = sf[i + 1]
         THEN IF match_value = None THEN pop2(sf, i)
              ELSE IF i + 1 >= Len(sf) THEN [sf |-> sf, ret |-> Raise("IndexError")]
              ELSE IF sf[i + 2] = match_value[1] THEN pop2(sf, i)
              ELSE delete_scan(sf, i + 1, code, match_value)
         ELSE delete_scan(sf, i + 1, code, match_value)

\* The same loop over a map object: enumerate consumes it, and neither pop nor
\* indexing exists on it.
RECURSIVE delete_scan_map(_, _, _, _)
delete_scan_map(rest, i, code, match_value) ==
    IF rest = <<>> THEN [sf |-> <<>>, ret |-> ReturnNone]
    ELSE IF i % 2 = 0 /\ code = Head(rest)
         THEN [sf |-> Tail(rest),
               ret |-> Raise(IF match_value = None THEN "AttributeError" ELSE "TypeError")]
         ELSE delete_scan_map(Tail(rest), i + 1, code, match_value)

\* Field.delete_subfield(code, match_value)
delete_subfield(sf, p, code, match_value) ==
    IF is_control_field(tag) THEN [sf |-> sf, pos |-> p, ret |-> NoSubfields]
    ELSE LET d == IF subfieldsType = "map" THEN delete_scan_map(sf, 0, code, match_value)
                  ELSE delete_scan(sf, 0, code, match_value) IN
         [sf |-> d.sf, pos |-> p, ret |-> d.ret]

\* Python truth of a returned value: None and '' are false.
Truthy(r) == r.val # <<>> /\ r.val[1] # <<>>

\* Field.delete_all_subfields(code)
RECURSIVE delete_all_subfields(_, _, _)
delete_all_subfields(sf, p, code) ==
    LET d == delete_subfield(sf, p, code, None) IN
    IF d.ret.exc # "" THEN d
    ELSE IF Truthy(d.ret) THEN delete_all_subfields(d.sf, p, code)
    ELSE [sf |-> d.sf, pos |-> p, ret |-> ReturnNone]

\* Field.change_code(from_code, to_code)
change_code(sf, p, from_code, to_code) ==
    IF is_control_field(tag) THEN [sf |-> sf, pos |-> p, ret |-> NoSubfields]
    ELSE [sf |-> [k \in 1..Len(sf) |->
                     IF (k - 1) % 2 = 1 THEN sf[k]
                     ELSE IF sf[k] = from_code THEN to_code ELSE sf[k]],
          pos |-> p, ret |-> ReturnNone]

\* zip(self.subfields[::2], self.subfields[1::2])
zip(sf) == [k \in 1..(Len(sf) \div 2) |-> <<sf[2 * k - 1], sf[2 * k]>>]

\* key(a) < key(b), key being handed the (code, value) tuple.
KeyLess(key, a, b) ==
    IF key = "identity" THEN TupleLess(a, b) ELSE StrLess(a[1], b[1])

\* sorted(pairs, key=key): stable, each element placed before the first greater one.
RECURSIVE sorted(_, _, _)
sorted(pairs, key, acc) ==
    IF pairs = <<>> THEN acc
    ELSE LET x == pairs[1]
             after == {k \in 1..Len(acc) : KeyLess(key, x, acc[k])}
             at == IF after = {} THEN Len(acc) + 1
                   ELSE CHOOSE k \in after : \A j \in after : k <= j IN
         sorted(Tail(pairs), key,
                SubSeq(acc, 1, at - 1) \o <<x>> \o SubSeq(acc, at, Len(acc)))

\* Field.sort(key)
sort(sf, p, key) ==
    IF is_control_field(tag) THEN [sf |-> sf, pos |-> p, ret |-> NoSubfields]
    ELSE IF subfieldsType = "map" THEN [sf |-> sf, pos |-> p, ret |-> Raise("TypeError")]
    ELSE [sf |-> Flatten(sorted(zip(sf), key, <<>>)), pos |-> p, ret |-> ReturnNone]

\* Mutant of setitem_loop: the value is written over the code.
RECURSIVE setitem_loop_writes_code(_, _, _, _)
setitem_loop_writes_code(sf, n, code, v) ==
    IF n < 0 THEN [sf |-> sf, ret |-> ReturnNone]
    ELSE LET ci == IF 2 * n - 2 < 0 THEN 2 * n - 2 + Len(sf) ELSE 2 * n - 2 IN
         IF ci < 0 \/ ci >= Len(sf) THEN [sf |-> sf, ret |-> Raise("IndexError")]
         ELSE IF sf[ci + 1] = code
              THEN [sf |-> [sf EXCEPT ![ci + 1] = v], ret |-> ReturnNone]
              ELSE setitem_loop_writes_code(sf, n - 1, code, v)

\* The while loop of __setitem__ from num_code = n; a negative index counts from
\* the end of the list.
RECURSIVE setitem_loop(_, _, _, _)
setitem_loop(sf, n, code, v) ==
    IF n < 0 THEN [sf |-> sf, ret |-> ReturnNone]
    ELSE LET ci == IF 2 * n - 2 < 0 THEN 2 * n - 2 + Len(sf) ELSE 2 * n - 2
             vi == IF 2 * n - 1 < 0 THEN 2 * n - 1 + Len(sf) ELSE 2 * n - 1 IN
         IF ci < 0 \/ ci >= Len(sf) THEN [sf |-> sf, ret |-> Raise("IndexError")]
         ELSE IF sf[ci + 1] = code
              THEN IF vi < 0 \/ vi >= Len(sf) THEN [sf |-> sf, ret |-> Raise("IndexError")]
                   ELSE [sf |-> [sf EXCEPT ![vi + 1] = v], ret |-> ReturnNone]
              ELSE setitem_loop(sf, n - 1, code, v)

\* Mutant of __setitem__: no test for more than one subfield with the code.
setitem_no_duplicate_test(sf, code, v) ==
    LET g == get_subfields(sf, {code}, FALSE) IN
    IF g.ret.exc # "" THEN g
    ELSE IF Len(g.ret.val[1]) = 0 THEN add_subfield(sf, g.pos, code, v)
    ELSE LET w == setitem_loop(sf, Len(sf) \div 2, code, v) IN
         [sf |-> w.sf, pos |-> g.pos, ret |-> w.ret]

\* Field.__setitem__(code, value)
__setitem__(sf, code, v) ==
    LET g == get_subfields(sf, {code}, FALSE) IN
    IF g.ret.exc # "" THEN g
    ELSE IF Len(g.ret.val[1]) > 1 THEN [sf |-> sf, pos |-> g.pos, ret |-> Raise("KeyError")]
    ELSE IF Len(g.ret.val[1]) = 0 THEN add_subfield(sf, g.pos, code, v)
    ELSE LET w == setitem_loop(sf, Len(sf) \div 2, code, v) IN
         [sf |-> w.sf, pos |-> g.pos, ret |-> w.ret]

\* pymarc.marc8.marc8_to_unicode: ASCII is kept, the MARC-8 combining acute
\* followed by 'e' becomes U+00E9.
RECURSIVE marc8_to_unicode(_)
marc8_to_unicode(s) ==
    IF s = <<>> THEN <<>>
    ELSE IF Len(s) >= 2 /\ s[1] = 226 /\ s[2] = 101
         THEN <<233>> \o marc8_to_unicode(SubSeq(s, 3, Len(s)))
         ELSE <<s[1]>> \o marc8_to_unicode(Tail(s))

----------------------------------------------------------------------------
\* Actions: one per call on the instance.

\* An iteration is under way: the cursor is set and the next step would yield.
UnderWay ==
    /\ ~is_control_field(tag)
    /\ subfieldsType = "list"
    /\ pos # -1
    /\ pos < Len(subfields)

\* A call that went through r = [sf, pos, ret] and left subfields of type ty.
Call(name, args, r, ty) ==
    /\ op' = [name |-> name, args |-> args]
    /\ subfields' = r.sf
    /\ subfieldsType' = ty
    /\ pos' = r.pos
    /\ ret' = r.ret
    /\ old' = subfields
    /\ midway' = UnderWay
    /\ yielded' = [c \in Consumers |-> {}]
    /\ UNCHANGED <<tag, indicators, data>>

Do_iter ==
    \E c \in Consumers :
        Call("__iter__", <<c>>,
             [sf |-> subfields, pos |-> __iter__(pos), ret |-> ReturnNone],
             subfieldsType)

Do_next ==
    \E c \in Consumers :
        LET r == __next__(subfields, pos) IN
        /\ op' = [name |-> "__next__", args |-> <<c>>]
        /\ pos' = r.pos
        /\ ret' = IF r.exc = "" THEN Return(r.val) ELSE Raise(r.exc)
        /\ old' = subfields
        /\ midway' = UnderWay
        /\ yielded' = IF r.exc = "" THEN [yielded EXCEPT ![c] = @ \cup {pos}] ELSE yielded
        /\ UNCHANGED <<tag, indicators, data, subfields, subfieldsType>>

Do_get_subfields ==
    \E codes \in SUBSET Codes, with_codes \in BOOLEAN :
        Call("get_subfields", <<codes, with_codes>>,
             get_subfields(subfields, codes, with_codes), subfieldsType)

Do_count ==
    \E code \in Codes :
        Call("count", <<code>>, count(subfields, code), subfieldsType)

Do_getitem ==
    \E code \in Codes :
        Call("__getitem__", <<code>>, __getitem__(subfields, code), subfieldsType)

Do_contains ==
    \E code \in Codes :
        Call("__contains__", <<code>>, __contains__(subfields, code), subfieldsType)

Do_subfields_as_dict ==
    Call("subfields_as_dict", <<>>, subfields_as_dict(subfields), subfieldsType)

Do_value == Call("value", <<>>, value(subfields, pos), subfieldsType)

Do_format_field == Call("format_field", <<>>, format_field(subfields, pos), subfieldsType)

Do_str == Call("__str__", <<>>, __str__(subfields, pos), subfieldsType)

Do_as_marc ==
    \E encoding \in Encodings :
        Call("as_marc", <<encoding>>, as_marc(subfields, pos, encoding), subfieldsType)

\* The fields __eq__ is handed: built with either tag and with the current or no
\* subfields (a list in either case).
Others ==
    {[tag |-> Format03i(t), indicators |-> indicators, data |-> data, subfields |-> s] :
        t \in TagArgs, s \in {subfields, <<>>}}

Do_eq ==
    \E other \in Others :
        Call("__eq__", <<other>>, __eq__(subfields, pos, other), subfieldsType)

Do_add_subfield ==
    \E code \in Codes, v \in Values :
        /\ Len(subfields) + 2 <= 2 * MaxPairs
        /\ Call("add_subfield", <<code, v>>, add_subfield(subfields, pos, code, v),
                subfieldsType)

Do_delete_subfield ==
    \E code \in Codes, match_value \in {None} \cup {Some(v) : v \in Values} :
        Call("delete_subfield", <<code, match_value>>,
             delete_subfield(subfields, pos, code, match_value), subfieldsType)

Do_delete_all_subfields ==
    \E code \in Codes :
        Call("delete_all_subfields", <<code>>,
             delete_all_subfields(subfields, pos, code), subfieldsType)

Do_change_code ==
    \E from_code \in Codes, to_code \in Codes :
        Call("change_code", <<from_code, to_code>>,
             change_code(subfields, pos, from_code, to_code),
             IF is_control_field(tag) THEN subfieldsType ELSE "list")

Do_sort ==
    \E key \in Keys :
        Call("sort", <<key>>, sort(subfields, pos, key), subfieldsType)

Do_setitem ==
    \E code \in Codes, v \in Values :
        LET r == __setitem__(subfields, code, v) IN
        /\ Len(r.sf) <= 2 * MaxPairs
        /\ Call("__setitem__", <<code, v>>, r, subfieldsType)

\* map_marc8_field(f): the data of a control field is decoded; the subfields of a
\* data field are rebound to map(marc8_to_unicode, f.subfields), a map object.
Do_map_marc8_field ==
    /\ op' = [name |-> "map_marc8_field", args |-> <<>>]
    /\ IF is_control_field(tag)
       THEN /\ data' = marc8_to_unicode(data)
            /\ UNCHANGED <<subfields, subfieldsType>>
       ELSE /\ subfields' = [k \in 1..Len(subfields) |-> marc8_to_unicode(subfields[k])]
            /\ subfieldsType' = "map"
            /\ UNCHANGED data
    /\ ret' = ReturnNone
    /\ old' = subfields
    /\ midway' = UnderWay
    /\ yielded' = [c \in Consumers |-> {}]
    /\ UNCHANGED <<tag, indicators, pos>>

Next ==
    \/ Do_iter
    \/ Do_next
    \/ Do_get_subfields
    \/ Do_count
    \/ Do_getitem
    \/ Do_contains
    \/ Do_subfields_as_dict
    \/ Do_value
    \/ Do_format_field
    \/ Do_str
    \/ Do_as_marc
    \/ Do_eq
    \/ Do_add_subfield
    \/ Do_delete_subfield
    \/ Do_delete_all_subfields
    \/ Do_change_code
    \/ Do_sort
    \/ Do_setitem

\* The mutation operations alone.
NextCtor ==
    \/ Do_add_subfield
    \/ Do_delete_subfield
    \/ Do_delete_all_subfields
    \/ Do_change_code
    \/ Do_sort
    \/ Do_setitem

\* The decode hook among the operations it is followed by.
NextMarc8 ==
    \/ Do_map_marc8_field
    \/ Do_iter
    \/ Do_next
    \/ Do_get_subfields
    \/ Do_count
    \/ Do_eq
    \/ Do_add_subfield
    \/ Do_delete_subfield
    \/ Do_change_code

\* Fields built as documented, then any calls.
Spec == Init /\ [][Next]_vars

\* Fields built from any subfield sequence the constructor accepts, then mutated.
SpecCtor == InitCtor /\ [][NextCtor]_vars

\* Fields holding MARC-8 text, with the decode hook among the calls.
SpecMarc8 == InitMarc8 /\ [][NextMarc8]_vars

----------------------------------------------------------------------------
\* The subfield list read as pairs, for stating the properties.

NPairs(sf) == Len(sf) \div 2

CodeAt(sf, k) == sf[2 * k - 1]

ValueAt(sf, k) == sf[2 * k]

\* The pairs of sf coded c.
PairsCoded(sf, c) == {k \in 1..NPairs(sf) : CodeAt(sf, k) = c}

\* sf without its k-th pair.
WithoutPair(sf, k) == SubSeq(sf, 1, 2 * k - 2) \o SubSeq(sf, 2 * k + 1, Len(sf))

\* sf without every pair coded c, the others in their order.
RECURSIVE WithoutCode(_, _)
WithoutCode(sf, c) ==
    IF Len(sf) < 2 THEN sf
    ELSE (IF sf[1] = c THEN <<>> ELSE <<sf[1], sf[2]>>) \o WithoutCode(SubSeq(sf, 3, Len(sf)), c)

\* The values of the pairs coded c, in field order.
RECURSIVE ValuesCoded(_, _)
ValuesCoded(sf, c) ==
    IF Len(sf) < 2 THEN <<>>
    ELSE (IF sf[1] = c THEN <<sf[2]>> ELSE <<>>) \o ValuesCoded(SubSeq(sf, 3, Len(sf)), c)

IsDataField == ~is_control_field(tag)

Called(name) == op.name = name /\ IsDataField

----------------------------------------------------------------------------
\* Properties

\* C1: after sort(key) adjacent codes are non-decreasing under key applied to the
\* code, and subfields whose codes have equal keys keep their relative order,
\* whatever their values (both keys modelled order codes as the codes themselves).
C1_SortStableByCode ==
    (Called("sort") /\ ret.exc = "") =>
        /\ Len(subfields) = Len(old)
        /\ \A k \in 1..(NPairs(subfields) - 1) :
               ~StrLess(CodeAt(subfields, k + 1), CodeAt(subfields, k))
        /\ \A c \in Codes : ValuesCoded(subfields, c) = ValuesCoded(old, c)

\* C2: field[c] = value with two or more subfields coded c raises KeyError and
\* leaves the subfield list exactly as it was.
C2_DuplicateCodeRejected ==
    (Called("__setitem__") /\ Cardinality(PairsCoded(old, op.args[1])) >= 2) =>
        /\ ret = Raise("KeyError")
        /\ subfields = old

C2_Witness ==
    /\ Called("__setitem__")
    /\ Cardinality(PairsCoded(old, op.args[1])) >= 2
    /\ \E k \in PairsCoded(old, op.args[1]) : ValueAt(old, k) # op.args[2]
    /\ ret.exc = "KeyError"

\* C3: after delete_all_subfields(c) no subfield coded c remains and the other
\* subfields are all present in their original order, whatever the values are.
C3_DeleteAllRemovesAll ==
    (Called("delete_all_subfields") /\ ret.exc = "") =>
        /\ PairsCoded(subfields, op.args[1]) = {}
        /\ subfields = WithoutCode(old, op.args[1])

\* The pairs of sf that delete_subfield(c, match_value) may remove.
Deletable(sf, c, match_value) ==
    {k \in PairsCoded(sf, c) : match_value = None \/ ValueAt(sf, k) = match_value[1]}

\* C4: delete_subfield(code, match_value) removes exactly the earliest matching
\* pair and returns its value, the rest keeping their order; with no match it
\* returns None and changes nothing.
C4_DeleteFirstMatch ==
    Called("delete_subfield") =>
        LET m == Deletable(old, op.args[1], op.args[2]) IN
        IF m = {} THEN ret = ReturnNone /\ subfields = old
        ELSE LET k == CHOOSE k \in m : \A j \in m : k <= j IN
             /\ ret = Return(ValueAt(old, k))
             /\ subfields = WithoutPair(old, k)

C4_Witness ==
    /\ Called("delete_subfield")
    /\ op.args[2] # None
    /\ Cardinality(Deletable(old, op.args[1], op.args[2])) >= 2
    /\ 1 \in PairsCoded(old, op.args[1]) \ Deletable(old, op.args[1], op.args[2])
    /\ Len(subfields) = Len(old) - 2

\* C5: field[c] = v with no subfield coded c appends (c, v) as add_subfield does;
\* with exactly one it replaces that subfield's value in place and changes no
\* other element and no length.
C5_SetItemAppendsOrReplaces ==
    Called("__setitem__") =>
        LET m == PairsCoded(old, op.args[1]) IN
        /\ m = {} => /\ subfields = old \o <<op.args[1], op.args[2]>>
                     /\ ret = ReturnNone
        /\ Cardinality(m) = 1 =>
               /\ Len(subfields) = Len(old)
               /\ \A j \in 1..Len(old) :
                      subfields[j] = IF j \in {2 * k : k \in m} THEN op.args[2] ELSE old[j]
               /\ ret = ReturnNone

C5_Witness ==
    /\ Called("__setitem__")
    /\ NPairs(old) = 3
    /\ PairsCoded(old, op.args[1]) = {2}
    /\ ValueAt(old, 2) # op.args[2]
    /\ ValueAt(subfields, 2) = op.args[2]

\* C6: len(subfields) is even in every reachable state of a data field, from
\* construction on.
C6_LenEven == IsDataField => Len(subfields) % 2 = 0

\* C7: map_marc8_field leaves a data field's subfields a flat list of the same
\* length with the same codes and every value decoded, and the operations that
\* follow work as on a list: a step does not fail on the type of subfields, and
\* add_subfield appends.
C7_DecodeKeepsStructure ==
    /\ Called("map_marc8_field") =>
           /\ subfieldsType = "list"
           /\ Len(subfields) = Len(old)
           /\ \A k \in 1..NPairs(old) :
                  /\ CodeAt(subfields, k) = CodeAt(old, k)
                  /\ ValueAt(subfields, k) = marc8_to_unicode(ValueAt(old, k))
    /\ Called("__next__") => ret.exc # "TypeError"
    /\ Called("add_subfield") => ret.exc = "" /\ Len(subfields) = Len(old) + 2

\* The calls that iterate over the field internally.
IteratingOps ==
    {"get_subfields", "count", "value", "format_field", "subfields_as_dict",
     "__str__", "as_marc", "__getitem__", "__setitem__", "__contains__"}

\* Starting an iteration puts the shared cursor on the first pair.
IterResets == op.name = "__iter__" => pos = 0

\* A step by either consumer yields the pair at the shared cursor and moves it on.
StepShared ==
    (Called("__next__") /\ ret.exc = "") =>
        /\ pos >= 2
        /\ pos <= Len(subfields)
        /\ ret.val[1] = <<subfields[pos - 1], subfields[pos]>>
        /\ (pos - 2) \in yielded[op.args[1]]

\* Once a step has met the end, the cursor is at or past the end for everyone.
EndShared == (Called("__next__") /\ ret.exc = "StopIteration") => ~UnderWay

\* No position is yielded to both consumers.
YieldedOnce == yielded["outer"] \cap yielded["inner"] = {}

\* C8 as stated: one cursor shared by all consumers, so that after any internally
\* iterating call has run to completion inside an iteration under way, that outer
\* iteration yields nothing more.
C8_SharedCursor ==
    /\ IterResets
    /\ StepShared
    /\ EndShared
    /\ YieldedOnce
    /\ (op.name \in IteratingOps /\ midway /\ ret.exc \in {"", "KeyError"}) => ~UnderWay

\* C8 amended: as above, except that an item write for a code the field lacks
\* appends its pair after its internal iteration ended, leaving the cursor on
\* that pair, the one pair the outer iteration still yields.
C8_SharedCursorAmended ==
    /\ IterResets
    /\ StepShared
    /\ EndShared
    /\ YieldedOnce
    /\ (op.name \in IteratingOps /\ midway /\ ret.exc \in {"", "KeyError"}) =>
           IF Called("__setitem__") /\ PairsCoded(old, op.args[1]) = {}
           THEN pos = Len(subfields) - 2
           ELSE ~UnderWay

C8_Witness ==
    /\ Called("get_subfields")
    /\ midway
    /\ NPairs(subfields) >= 2
    /\ ret.exc = ""
    /\ pos = Len(subfields)

\* The text as_marc is to encode: the indicators, each pair behind a delimiter, a
\* terminator.
RECURSIVE MarcText(_, _)
MarcText(sf, k) ==
    IF k > NPairs(sf) THEN END_OF_FIELD
    ELSE SUBFIELD_INDICATOR \o CodeAt(sf, k) \o ValueAt(sf, k) \o MarcText(sf, k + 1)

Occurrences(bytes, b) == Cardinality({i \in 1..Len(bytes) : bytes[i] = b})

\* C9: as_marc returns the encoded indicators, then delimiter + code + value for
\* each subfield in field order, then a single terminator; for a control field
\* the encoded data and a terminator.
C9_AsMarcLayout ==
    op.name = "as_marc" =>
        IF is_control_field(tag)
        THEN ret = Return(encode(data \o END_OF_FIELD, op.args[1]))
        ELSE /\ ret = Return(encode(indicators[1] \o indicators[2] \o MarcText(subfields, 1),
                                    op.args[1]))
             /\ Occurrences(ret.val[1], 31) = NPairs(subfields)
             /\ Occurrences(ret.val[1], 30) = 1
             /\ ret.val[1][Len(ret.val[1])] = 30

C9_Witness ==
    /\ Called("as_marc")
    /\ midway
    /\ NPairs(subfields) = 3
    /\ CodeAt(subfields, 1) = CodeAt(subfields, 3)
    /\ CodeAt(subfields, 1) # CodeAt(subfields, 2)
    /\ ValueAt(subfields, 2) = <<>>
    /\ ValueAt(subfields, 3) # <<>>
    /\ ret.exc = ""

\* C10: on a field whose list has even length, however iteration steps and
\* mutations interleave, the cursor is even, and a step after the iteration was
\* started either yields the pair at the cursor or ends the iteration; it never
\* reads past the end of the list.
C10_StepInBounds ==
    IsDataField =>
        /\ Len(subfields) % 2 = 0
        /\ pos # -1 => pos % 2 = 0
        /\ (op.name = "__next__" /\ ret.exc # "AttributeError") =>
               \/ ret.exc = "StopIteration" /\ pos >= Len(subfields)
               \/ /\ ret.exc = ""
                  /\ pos - 2 >= 0 /\ pos <= Len(subfields)
                  /\ ret.val[1] = <<subfields[pos - 1], subfields[pos]>>

C10_Witness ==
    /\ Called("__next__")
    /\ ret.exc = "StopIteration"
    /\ pos > Len(subfields)
    /\ Len(subfields) > 0

====
